---- MODULE Spec2Model ----
(***************************************************************************)
(* A model of package forms (src/forms.go): Input fields with their        *)
(* validator pipelines, the IntegerInput presets, and the Form that holds, *)
(* binds, validates and renders fields.                                    *)
(*                                                                         *)
(* Strings that the code inspects character by character (a field's value) *)
(* are sequences of one-character strings.  Go ints are records            *)
(* [neg, mag] of a sign and a decimal magnitude (most significant digit    *)
(* first, no leading zero): the values at the edge of 32 bits, which       *)
(* strconv.ParseInt(s, 10, 32) decides, lie outside TLC's own integers.    *)
(* `int` is taken as 64 bits wide (amd64, arm64), so the min and max of    *)
(* an Input may lie outside 32 bits.                                       *)
(***************************************************************************)
EXTENDS Integers, Sequences, FiniteSets, TLC

VARIABLES store, form, out, panicked

vars == <<store, form, out, panicked>>

-----------------------------------------------------------------------------
(* Bounds of the model *)

\* AddValidator is offered while a pipeline holds fewer caller validators.
MaxValidators == 2

\* AddClass is offered while a field holds fewer classes.
MaxClasses == 1

-----------------------------------------------------------------------------
(* Decimal magnitudes and Go ints *)

DigitChars == <<"0", "1", "2", "3", "4", "5", "6", "7", "8", "9">>

IsDigit(c) == \E d \in 0..9 : DigitChars[d + 1] = c

DigitOf(c) == CHOOSE d \in 0..9 : DigitChars[d + 1] = c

RECURSIVE Norm(_)
\* a magnitude without its leading zeros
Norm(ds) == IF Len(ds) > 1 /\ ds[1] = 0 THEN Norm(Tail(ds)) ELSE ds

NatLess(a, b) ==
    \/ Len(a) < Len(b)
    \/ /\ Len(a) = Len(b)
       /\ \E k \in 1..Len(a) : /\ a[k] < b[k]
                               /\ \A j \in 1..(k - 1) : a[j] = b[j]

Pos(ds) == [neg |-> FALSE, mag |-> ds]
Neg(ds) == [neg |-> TRUE, mag |-> ds]

\* x < y on Go ints
IntLess(x, y) ==
    IF x.neg /\ ~y.neg THEN TRUE
    ELSE IF ~x.neg /\ y.neg THEN FALSE
    ELSE IF x.neg THEN NatLess(y.mag, x.mag)
    ELSE NatLess(x.mag, y.mag)

\* 1<<32 - 1, the largest value ParseUint accepts for bitSize 32
MaxUint32 == <<4, 2, 9, 4, 9, 6, 7, 2, 9, 5>>

\* 1<<31, the cutoff of ParseInt for bitSize 32
Cutoff32 == <<2, 1, 4, 7, 4, 8, 3, 6, 4, 8>>

\* 1<<31 - 1
MaxInt32 == <<2, 1, 4, 7, 4, 8, 3, 6, 4, 7>>

\* strconv.Itoa / the %d verb: the decimal string of a Go int
Itoa(n) ==
    LET ds == [k \in 1..Len(n.mag) |-> DigitChars[n.mag[k] + 1]]
    IN  IF n.neg THEN <<"-">> \o ds ELSE ds

RECURSIVE ParseUintLoop(_, _, _)
\* the digit loop of strconv.ParseUint(s, 10, 32): a character that is no
\* digit is a syntax error, a value above 1<<32 - 1 a range error that
\* ends the loop at once
ParseUintLoop(s, k, n) ==
    IF k > Len(s) THEN [n |-> n, err |-> "nil"]
    ELSE IF ~IsDigit(s[k]) THEN [n |-> <<0>>, err |-> "syntax"]
    ELSE LET n1 == Norm(n \o <<DigitOf(s[k])>>)
         IN  IF NatLess(MaxUint32, n1)
             THEN [n |-> MaxUint32, err |-> "range"]
             ELSE ParseUintLoop(s, k + 1, n1)

ParseUint(s) ==
    IF s = <<>> THEN [n |-> <<0>>, err |-> "syntax"]
    ELSE ParseUintLoop(s, 1, <<0>>)

\* strconv.ParseInt(s, 10, 32): [v, err], err one of "nil", "syntax", "range"
ParseInt(s) ==
    IF s = <<>> THEN [v |-> Pos(<<0>>), err |-> "syntax"]
    ELSE LET neg  == s[1] = "-"
             rest == IF s[1] \in {"+", "-"} THEN Tail(s) ELSE s
             un   == ParseUint(rest)
         IN  IF un.err = "syntax" THEN [v |-> Pos(<<0>>), err |-> "syntax"]
             ELSE IF ~neg /\ ~NatLess(un.n, Cutoff32)
                  THEN [v |-> Pos(MaxInt32), err |-> "range"]
             ELSE IF neg /\ NatLess(Cutoff32, un.n)
                  THEN [v |-> Neg(Cutoff32), err |-> "range"]
             ELSE [v |-> IF neg /\ un.n # <<0>> THEN Neg(un.n) ELSE Pos(un.n),
                   err |-> "nil"]

-----------------------------------------------------------------------------
(* Formatted text: a sequence of pieces, each a literal or a run of         *)
(* characters                                                               *)

Lit(s) == [lit |-> s, val |-> <<>>]
Chars(cs) == [lit |-> "", val |-> cs]

StrArg(text) == [typ |-> "string", text |-> text]
IntArg(n) == [typ |-> "int", text |-> <<Chars(Itoa(n))>>]

RECURSIVE Flatten(_)
Flatten(ss) == IF ss = <<>> THEN <<>> ELSE Head(ss) \o Flatten(Tail(ss))

\* strings.Join(elems, sep) over texts
RECURSIVE Join(_, _)
Join(elems, sep) ==
    IF elems = <<>> THEN <<>>
    ELSE IF Len(elems) = 1 THEN elems[1]
    ELSE elems[1] \o <<Lit(sep)>> \o Join(Tail(elems), sep)

\* fmt.Sprintf(frmt, args...): frmt is a sequence of literals and of verbs
\* (the literal "%s"); the k-th verb prints the k-th argument, a verb with
\* no argument prints %!s(MISSING), and arguments no verb uses are
\* appended as %!(EXTRA type=value, ...)
Sprintf(frmt, args) ==
    LET VerbsTo(j) == Cardinality({i \in 1..j : frmt[i] = "%s"})
        nverbs     == VerbsTo(Len(frmt))
        body == Flatten([j \in 1..Len(frmt) |->
                    IF frmt[j] # "%s" THEN <<Lit(frmt[j])>>
                    ELSE IF VerbsTo(j) <= Len(args) THEN args[VerbsTo(j)].text
                    ELSE <<Lit("%!s(MISSING)")>>])
        extra == [k \in 1..(Len(args) - nverbs) |->
                    <<Lit(args[nverbs + k].typ), Lit("=")>>
                        \o args[nverbs + k].text]
    IN  IF Len(args) > nverbs
        THEN body \o <<Lit("%!(EXTRA ")>> \o Join(extra, ", ") \o <<Lit(")")>>
        ELSE body

-----------------------------------------------------------------------------
(* Errors and FieldError *)

NilError == [kind |-> "nil", msg |-> <<>>]

\* errors.New("Not a valid integer.")
NotIntegerError == [kind |-> "errors.New", msg |-> <<Lit("Not a valid integer.")>>]

\* fmt.Errorf(frmt, args...)
Errorf(frmt, args) == [kind |-> "fmt.Errorf", msg |-> Sprintf(frmt, args)]

NilFieldError == [isNil |-> TRUE, Name |-> "", Error |-> NilError]

NewFieldError(name, err) == [isNil |-> FALSE, Name |-> name, Error |-> err]

-----------------------------------------------------------------------------
(* Input *)

NilMap == [isNil |-> TRUE, kv |-> [k \in {} |-> ""]]
EmptyMap == [isNil |-> FALSE, kv |-> [k \in {} |-> ""]]

Zero == Pos(<<0>>)

\* The validators of the package, named; "notEmpty" and "reject" stand for
\* validators a caller passes to AddValidator.
CallerValidators == {"notEmpty", "reject"}

NewInput ==
    [typ |-> "text", name |-> "", value |-> <<>>, classes |-> <<>>,
     min |-> Zero, max |-> Zero, required |-> FALSE,
     attrs |-> EmptyMap, validators |-> <<>>]

Name(i) == i.name

SetName(i, n) == [i EXCEPT !.name = n]

AddClass(i, class) == [i EXCEPT !.classes = Append(@, class)]

\* i.attrs[key] = value; the assignment panics when the map is nil
AddAttr(i, key, value) ==
    IF i.attrs.isNil
    THEN [panic |-> TRUE, i |-> i]
    ELSE [panic |-> FALSE,
          i |-> [i EXCEPT !.attrs.kv =
                    [k \in DOMAIN @ \cup {key} |-> IF k = key THEN value ELSE @[k]]]]

AddValidator(i, v) == [i EXCEPT !.validators = Append(@, v)]

Value(i) == i.value

SetValue(i, v) == [i EXCEPT !.value = v]

\* FmtAttrs ranges over the map; order is the order that range took
FmtAttrs(i, order) ==
    Join([k \in 1..Len(order) |->
            Sprintf(<<"%s", "='", "%s", "'">>,
                    <<StrArg(<<Lit(order[k])>>), StrArg(<<Lit(i.attrs.kv[order[k]])>>)>>)],
         " ")

String(i, order) ==
    Sprintf(<<"<input type='", "%s", "' name='", "%s", "' value='", "%s",
              "' class='", "%s", "' ", "%s", ">">>,
            <<StrArg(<<Lit(i.typ)>>), StrArg(<<Lit(i.name)>>),
              StrArg(<<Chars(i.value)>>),
              StrArg(Join([k \in 1..Len(i.classes) |-> <<Lit(i.classes[k])>>], " ")),
              StrArg(FmtAttrs(i, order))>>)

isInteger(i) ==
    IF ParseInt(i.value).err # "nil" THEN NotIntegerError ELSE NilError

integerBoundExclusive(i) ==
    LET v    == ParseInt(i.value).v
        frmt == <<"%s", " is ", "%s", " than ">>
    IN  IF ~IntLess(i.min, v)
        THEN Errorf(frmt, <<StrArg(<<Lit(i.name)>>), StrArg(<<Lit("less")>>), IntArg(i.min)>>)
        ELSE IF ~IntLess(v, i.max)
        THEN Errorf(frmt, <<StrArg(<<Lit(i.name)>>), StrArg(<<Lit("more")>>), IntArg(i.max)>>)
        ELSE NilError

integerBoundOtherBound(i) ==
    LET v    == ParseInt(i.value).v
        frmt == <<"%s", " is ", "%s", " than ">>
    IN  IF IntLess(v, i.min)
        THEN Errorf(frmt, <<StrArg(<<Lit(i.name)>>), StrArg(<<Lit("less")>>), IntArg(i.max)>>)
        ELSE IF IntLess(i.max, v)
        THEN Errorf(frmt, <<StrArg(<<Lit(i.name)>>), StrArg(<<Lit("more")>>), IntArg(i.min)>>)
        ELSE NilError

\* the error of ParseInt is dropped: v is what ParseInt returned with it.
\* The format has two verbs and is given three arguments.
integerBound(i) ==
    LET v    == ParseInt(i.value).v
        frmt == <<"%s", " is ", "%s", " than ">>
    IN  IF IntLess(v, i.min)
        THEN Errorf(frmt, <<StrArg(<<Lit(i.name)>>), StrArg(<<Lit("less")>>), IntArg(i.min)>>)
        ELSE IF IntLess(i.max, v)
        THEN Errorf(frmt, <<StrArg(<<Lit(i.name)>>), StrArg(<<Lit("more")>>), IntArg(i.max)>>)
        ELSE NilError

\* a validator of the caller: the value must not be empty
notEmpty(i) ==
    IF i.value = <<>> THEN [kind |-> "caller", msg |-> <<Lit("required")>>] ELSE NilError

\* a validator of the caller that accepts nothing
reject(i) == [kind |-> "caller", msg |-> <<Lit("rejected")>>]

\* f(i) for the validator named f
Call(f, i) ==
    CASE f = "isInteger"    -> isInteger(i)
      [] f = "integerBound" -> integerBound(i)
      [] f = "notEmpty"     -> notEmpty(i)
      [] f = "reject"       -> reject(i)

RECURSIVE ValidateNoBreak(_, _, _, _)
ValidateNoBreak(i, k, fe, invoked) ==
    IF k > Len(i.validators) THEN [fe |-> fe, invoked |-> invoked]
    ELSE LET err == Call(i.validators[k], i)
         IN  ValidateNoBreak(i, k + 1,
                 IF err # NilError THEN NewFieldError(Name(i), err) ELSE fe,
                 Append(invoked, i.validators[k]))

RECURSIVE ValidateLoop(_, _, _, _)
\* the loop of Input.Validate from its k-th validator on; invoked lists the
\* validators called so far
ValidateLoop(i, k, fe, invoked) ==
    IF k > Len(i.validators) THEN [fe |-> fe, invoked |-> invoked]
    ELSE LET err == Call(i.validators[k], i)
         IN  IF err # NilError
             THEN [fe |-> NewFieldError(Name(i), err),
                   invoked |-> Append(invoked, i.validators[k])]
             ELSE ValidateLoop(i, k + 1, fe, Append(invoked, i.validators[k]))

\* Input.Validate: [fe, invoked]
Validate(i) == ValidateLoop(i, 1, NilFieldError, <<>>)

integerValidatorsSwapped == <<"integerBound", "isInteger">>

integerValidators == <<"isInteger", "integerBound">>

\* new(IntegerInput) leaves every field at its zero value: typ is "", and
\* classes and attrs are nil
NewIntegerInput ==
    [typ |-> "", name |-> "", value |-> <<>>, classes |-> <<>>,
     min |-> Zero, max |-> Zero, required |-> FALSE,
     attrs |-> NilMap, validators |-> integerValidators]

\* min and max have no setter: code of the package assigns them
WithBounds(i, lo, hi) == [i EXCEPT !.min = lo, !.max = hi]

-----------------------------------------------------------------------------
(* Form *)

\* the orders in which a range over a map with key set S may run
Orders(S) ==
    {o \in [1..Cardinality(S) -> S] : \A k \in S : \E j \in DOMAIN o : o[j] = k}

NewForm == [action |-> "", method |-> "GET", fields |-> [k \in {} |-> 0]]

AddInputKeepFirst(f, st, id) ==
    IF Name(st[id]) \in DOMAIN f.fields THEN f
    ELSE [f EXCEPT !.fields =
            [k \in DOMAIN @ \cup {Name(st[id])} |-> IF k = Name(st[id]) THEN id ELSE @[k]]]

\* f.fields[field.Name()] = field; a field is held by its pointer, id
AddInput(f, st, id) ==
    [f EXCEPT !.fields =
        [k \in DOMAIN @ \cup {Name(st[id])} |-> IF k = Name(st[id]) THEN id ELSE @[k]]]

SetAction(f, action) == [f EXCEPT !.action = action]

Action(f) == f.action

SetMethod(f, method) == [f EXCEPT !.method = method]

Method(f) == f.method

\* Form.HTML: order is the order the range over f.fields took, aord[id] the
\* order the range over the attributes of field id took
HTML(f, st, order, aord) ==
    Sprintf(<<"<form action='", "%s", "' method='", "%s", "'>">>,
            <<StrArg(<<Lit(f.action)>>), StrArg(<<Lit(f.method)>>)>>)
    \o Flatten([k \in 1..Len(order) |->
                    String(st[f.fields[order[k]]], aord[f.fields[order[k]]])])
    \o <<Lit("</form>")>>

\* A request: its method, its query parameters and its body parameters
\* (name -> values in order, <<>> when the name is absent), and whether
\* ParseForm fails on it.
NilRequest ==
    [isNil |-> TRUE, method |-> "", query |-> <<>>, body |-> <<>>, malformed |-> FALSE]

\* net/http Request.ParseForm: r.Form holds the query parameters and, for a
\* POST request, the body parameters ahead of them; r.PostForm holds the
\* body parameters of a POST request
ParseForm(r) ==
    [err      |-> r.malformed,
     Form     |-> [n \in DOMAIN r.query |->
                    (IF r.method = "POST" THEN r.body[n] ELSE <<>>) \o r.query[n]],
     PostForm |-> [n \in DOMAIN r.body |->
                    IF r.method = "POST" THEN r.body[n] ELSE <<>>]]

\* Request.FormValue(name) after ParseForm: the first value of r.Form[name]
FormValue(parsed, name) ==
    IF name \in DOMAIN parsed.Form /\ parsed.Form[name] # <<>>
    THEN parsed.Form[name][1] ELSE <<>>

\* Request.PostFormValue(name) after ParseForm
PostFormValue(parsed, name) ==
    IF name \in DOMAIN parsed.PostForm /\ parsed.PostForm[name] # <<>>
    THEN parsed.PostForm[name][1] ELSE <<>>

RECURSIVE Bind(_, _, _, _, _)
\* the range loop of Form.Load over the keys order[k..]
Bind(f, st, parsed, order, k) ==
    IF k > Len(order) THEN st
    ELSE LET name == order[k]
             id   == f.fields[name]
             v    == IF f.method = "GET" THEN FormValue(parsed, name)
                     ELSE PostFormValue(parsed, name)
         IN  Bind(f, [st EXCEPT ![id] = SetValue(@, v)], parsed, order, k + 1)

LoadNoNilCheck(f, st, r, order) ==
    IF r.isNil THEN Bind(f, st, [Form |-> <<>>, PostForm |-> <<>>], order, 1)
    ELSE IF ParseForm(r).err THEN st
    ELSE Bind(f, st, ParseForm(r), order, 1)

\* Form.Load: the fields after the call; order is the order the range over
\* f.fields took
Load(f, st, r, order) ==
    IF r.isNil THEN st
    ELSE IF ParseForm(r).err THEN st
    ELSE Bind(f, st, ParseForm(r), order, 1)

NilFormErrors == [isNil |-> TRUE, m |-> [k \in {} |-> NilFieldError]]

\* Form.Validate
FormValidate(f, st) ==
    LET failing == {k \in DOMAIN f.fields : ~Validate(st[f.fields[k]]).fe.isNil}
        errs    == [k \in failing |-> Validate(st[f.fields[k]]).fe]
    IN  IF Cardinality(DOMAIN errs) > 0
        THEN [isNil |-> FALSE, m |-> errs]
        ELSE NilFormErrors

\* Form.Values
Values(f, st) == [k \in DOMAIN f.fields |-> Value(st[f.fields[k]])]

-----------------------------------------------------------------------------
(* The inputs the operations are called with *)

Names == {"age", "name"}

ClassNames == {"big"}

AttrKeys == {"id", "placeholder"}

AttrValues == {"x"}

\* Go ints around the bounds in use and around the edges of 32 bits
TestInts ==
    {Neg(<<2, 1, 4, 7, 4, 8, 3, 6, 4, 9>>), Neg(Cutoff32), Neg(<<6>>), Neg(<<5>>),
     Zero, Pos(<<1>>), Pos(<<5>>), Pos(<<6>>), Pos(<<2, 5>>), Pos(<<1, 3, 0>>),
     Pos(<<1, 3, 1>>), Pos(MaxInt32), Pos(Cutoff32), Pos(<<3, 0, 0, 0, 0, 0, 0, 0, 0, 0>>),
     Pos(<<9, 9, 9, 9, 9, 9, 9, 9, 9, 9, 9>>)}

\* values that are the decimal string of no int
OtherValues ==
    {<<>>, <<"a", "b", "c">>, <<"1", "2", "a">>, <<"-">>, <<" ", "5">>,
     <<"+", "5">>, <<"0", "5">>, <<"-", "0">>, <<"1", "_", "0">>}

InputValues == {Itoa(n) : n \in TestInts} \cup OtherValues

\* the (min, max) given to integer fields
BoundPairs ==
    {<<Zero, Zero>>, <<Zero, Pos(<<1, 3, 0>>)>>, <<Neg(<<5>>), Pos(<<5>>)>>,
     <<Neg(Cutoff32), Pos(MaxInt32)>>,
     <<Zero, Pos(<<3, 0, 0, 0, 0, 0, 0, 0, 0, 0>>)>>}

FormValues == {<<>>, <<"2", "5">>, <<"2", "0", "0">>}

Methods == {"GET", "POST"}

Actions == {"", "/submit"}

QueryParams ==
    {[n \in Names |-> IF n \in S THEN <<<<"2", "5">>, <<"2", "0", "0">>>> ELSE <<>>] :
        S \in {{}, {"age"}, Names}}

BodyParams ==
    {[n \in Names |-> IF n \in S THEN <<<<"2", "0", "0">>>> ELSE <<>>] : S \in {{}, Names}}

NoParams == [n \in Names |-> <<>>]

Requests ==
    {[isNil |-> FALSE, method |-> "GET", query |-> q, body |-> NoParams,
      malformed |-> FALSE] : q \in QueryParams}
    \cup {[isNil |-> FALSE, method |-> "POST", query |-> q, body |-> b,
           malformed |-> FALSE] : q \in QueryParams, b \in BodyParams}
    \cup {[isNil |-> FALSE, method |-> "GET",
           query |-> [n \in Names |-> <<<<"2", "5">>, <<"2", "0", "0">>>>],
           body |-> NoParams, malformed |-> TRUE]}
    \cup {NilRequest}

-----------------------------------------------------------------------------
(* The calls.  out records the last call and what it returned; the plain  *)
(* setters are recorded alike, as "set".                                   *)

CallAddClass(id, class) ==
    /\ ~panicked
    /\ Len(store[id].classes) < MaxClasses
    /\ store' = [store EXCEPT ![id] = AddClass(@, class)]
    /\ out' = [op |-> "set"]
    /\ UNCHANGED <<form, panicked>>

CallAddAttr(id, key, value) ==
    /\ ~panicked
    /\ store' = [store EXCEPT ![id] = AddAttr(@, key, value).i]
    /\ panicked' = AddAttr(store[id], key, value).panic
    /\ out' = [op |-> "set"]
    /\ UNCHANGED form

CallAddValidator(id, v) ==
    /\ ~panicked
    /\ Cardinality({k \in DOMAIN store[id].validators :
                        store[id].validators[k] \in CallerValidators}) < MaxValidators
    /\ store' = [store EXCEPT ![id] = AddValidator(@, v)]
    /\ out' = [op |-> "AddValidator", id |-> id, v |-> v]
    /\ UNCHANGED <<form, panicked>>

CallSetName(id, n) ==
    /\ ~panicked
    /\ store' = [store EXCEPT ![id] = SetName(@, n)]
    /\ out' = [op |-> "set"]
    /\ UNCHANGED <<form, panicked>>

CallSetValue(id, v) ==
    /\ ~panicked
    /\ store' = [store EXCEPT ![id] = SetValue(@, v)]
    /\ out' = [op |-> "set"]
    /\ UNCHANGED <<form, panicked>>

CallString(id, order) ==
    /\ ~panicked
    /\ out' = [op |-> "String", text |-> String(store[id], order)]
    /\ UNCHANGED <<store, form, panicked>>

CallValidate(id) ==
    /\ ~panicked
    /\ out' = [op |-> "Validate", id |-> id, fe |-> Validate(store[id]).fe,
               invoked |-> Validate(store[id]).invoked]
    /\ UNCHANGED <<store, form, panicked>>

CallAddInput(id) ==
    /\ ~panicked
    /\ form' = AddInput(form, store, id)
    /\ out' = [op |-> "AddInput", id |-> id,
               prev |-> IF Name(store[id]) \in DOMAIN form.fields
                        THEN form.fields[Name(store[id])] ELSE 0]
    /\ UNCHANGED <<store, panicked>>

CallSetAction(action) ==
    /\ ~panicked
    /\ form' = SetAction(form, action)
    /\ out' = [op |-> "set"]
    /\ UNCHANGED <<store, panicked>>

CallSetMethod(method) ==
    /\ ~panicked
    /\ form' = SetMethod(form, method)
    /\ out' = [op |-> "set"]
    /\ UNCHANGED <<store, panicked>>

CallHTML(order, aord) ==
    /\ ~panicked
    /\ out' = [op |-> "HTML", html |-> HTML(form, store, order, aord)]
    /\ UNCHANGED <<store, form, panicked>>

CallLoad(r, order) ==
    /\ ~panicked
    /\ store' = Load(form, store, r, order)
    /\ out' = [op |-> "Load", r |-> r]
    /\ UNCHANGED <<form, panicked>>

CallFormValidate ==
    /\ ~panicked
    /\ out' = [op |-> "FormValidate", errs |-> FormValidate(form, store)]
    /\ UNCHANGED <<store, form, panicked>>

CallValues ==
    /\ ~panicked
    /\ out' = [op |-> "Values", values |-> Values(form, store)]
    /\ UNCHANGED <<store, form, panicked>>

-----------------------------------------------------------------------------
(* One field, from its constructor on: its pipeline, name and value *)

Constructed ==
    {NewInput} \cup {WithBounds(NewIntegerInput, b[1], b[2]) : b \in BoundPairs}

InitInput ==
    /\ store \in [{1} -> Constructed]
    /\ form = NewForm
    /\ out = [op |-> "new"]
    /\ panicked = FALSE

NextInput ==
    \/ \E id \in DOMAIN store, v \in CallerValidators : CallAddValidator(id, v)
    \/ \E id \in DOMAIN store, n \in Names : CallSetName(id, n)
    \/ \E id \in DOMAIN store, v \in InputValues : CallSetValue(id, v)
    \/ \E id \in DOMAIN store : CallValidate(id)

SpecInput == InitInput /\ [][NextInput]_vars

-----------------------------------------------------------------------------
(* A form and two fields, an integer field and a text field *)

AgeField == WithBounds(NewIntegerInput, Zero, Pos(<<1, 3, 0>>))

InitForm ==
    /\ store = [id \in {1, 2} |-> IF id = 1 THEN AgeField ELSE NewInput]
    /\ form = NewForm
    /\ out = [op |-> "new"]
    /\ panicked = FALSE

NextForm ==
    \/ \E id \in DOMAIN store, n \in Names : CallSetName(id, n)
    \/ \E id \in DOMAIN store, v \in FormValues : CallSetValue(id, v)
    \/ \E id \in DOMAIN store : CallAddInput(id)
    \/ \E a \in Actions : CallSetAction(a)
    \/ \E m \in Methods : CallSetMethod(m)
    \/ \E r \in Requests, o \in Orders(DOMAIN form.fields) : CallLoad(r, o)
    \/ CallFormValidate
    \/ CallValues

SpecForm == InitForm /\ [][NextForm]_vars

-----------------------------------------------------------------------------
(* Every operation of the package, on a form and one field *)

FewValues == {<<>>, <<"2", "5">>}

FewRequests ==
    {NilRequest,
     [isNil |-> FALSE, method |-> "GET",
      query |-> [n \in Names |-> <<<<"2", "5">>>>], body |-> NoParams,
      malformed |-> FALSE]}

AttrOrders(st) ==
    {g \in [DOMAIN st -> UNION {Orders(DOMAIN st[id].attrs.kv) : id \in DOMAIN st}] :
        \A id \in DOMAIN st : g[id] \in Orders(DOMAIN st[id].attrs.kv)}

NextCalls ==
    \/ \E id \in DOMAIN store, c \in ClassNames : CallAddClass(id, c)
    \/ \E id \in DOMAIN store, k \in AttrKeys, v \in AttrValues : CallAddAttr(id, k, v)
    \/ \E id \in DOMAIN store : CallAddValidator(id, "notEmpty")
    \/ \E id \in DOMAIN store : CallSetName(id, "age")
    \/ \E id \in DOMAIN store, v \in FewValues : CallSetValue(id, v)
    \/ \E id \in DOMAIN store :
          \E o \in Orders(DOMAIN store[id].attrs.kv) : CallString(id, o)
    \/ \E id \in DOMAIN store : CallValidate(id)
    \/ \E id \in DOMAIN store : CallAddInput(id)
    \/ \E r \in FewRequests, o \in Orders(DOMAIN form.fields) : CallLoad(r, o)
    \/ CallFormValidate
    \/ \E o \in Orders(DOMAIN form.fields), g \in AttrOrders(store) : CallHTML(o, g)
    \/ CallValues

InitCalls ==
    /\ store \in [{1} -> {AgeField, NewInput}]
    /\ form = NewForm
    /\ out = [op |-> "new"]
    /\ panicked = FALSE

SpecCalls == InitCalls /\ [][NextCalls]_vars

-----------------------------------------------------------------------------
(* The properties *)

\* a field built by NewIntegerInput: typ is left "", and nothing sets typ
IsIntegerInput(i) == i.typ = ""

InInt32(n) == ~IntLess(n, Neg(Cutoff32)) /\ ~IntLess(Pos(MaxInt32), n)

Within(n, i) == ~IntLess(n, i.min) /\ ~IntLess(i.max, n)

Range(seq) == {seq[k] : k \in DOMAIN seq}

\* the message reads "<name> is <word> than "
Says(msg, name, word) ==
    \E k \in 1..(Len(msg) - 3) :
        /\ msg[k] = Lit(name)
        /\ msg[k + 1] = Lit(" is ")
        /\ msg[k + 2] = Lit(word)
        /\ msg[k + 3] = Lit(" than ")

\* the message holds the decimal string of n
Mentions(msg, n) == \E k \in DOMAIN msg : msg[k] = Chars(Itoa(n))

First(params, n) ==
    IF n \in DOMAIN params /\ params[n] # <<>> THEN params[n][1] ELSE <<>>

\* C1: Form.Validate() returns nil iff the Validate() of every field of the
\* form returns nil, and otherwise a map whose key set is the set of the
\* names of the fields whose Validate() returned an error.
C1_KeysAreFailedNames ==
    out.op = "FormValidate" =>
        LET held   == {form.fields[k] : k \in DOMAIN form.fields}
            failed == {id \in held : ~Validate(store[id]).fe.isNil}
        IN  /\ out.errs.isNil <=> failed = {}
            /\ ~out.errs.isNil =>
                   DOMAIN out.errs.m = {Name(store[id]) : id \in failed}

C3_UnparseableStopsAtIsInteger ==
    out.op = "Validate" =>
        LET i == store[out.id]
        IN  (IsIntegerInput(i) /\ ParseInt(i.value).err # "nil") =>
                /\ out.fe = NewFieldError(Name(i), NotIntegerError)
                /\ "integerBound" \notin Range(out.invoked)

C3_Witness ==
    /\ out.op = "Validate"
    /\ IsIntegerInput(store[out.id])
    /\ store[out.id].value = Itoa(Pos(Cutoff32))
    /\ Within(Pos(Cutoff32), store[out.id])
    /\ out.fe.Error = NotIntegerError
    /\ out.invoked = <<"isInteger">>

\* C4: an integer field whose value is the decimal string of a parseable n
\* gets, when n < min, an error that says the field is less than and holds
\* the value of min, and when n > max, an error that says the field is more
\* than and holds the value of max.
C4_OutOfBoundsMessage ==
    out.op = "Validate" =>
        LET i == store[out.id]
        IN  IsIntegerInput(i) =>
                \A n \in TestInts :
                    (i.value = Itoa(n) /\ ParseInt(i.value).err = "nil") =>
                        /\ IntLess(n, i.min) =>
                               /\ ~out.fe.isNil
                               /\ Says(out.fe.Error.msg, Name(i), "less")
                               /\ Mentions(out.fe.Error.msg, i.min)
                        /\ IntLess(i.max, n) =>
                               /\ ~out.fe.isNil
                               /\ Says(out.fe.Error.msg, Name(i), "more")
                               /\ Mentions(out.fe.Error.msg, i.max)

C4_Witness ==
    /\ out.op = "Validate"
    /\ IsIntegerInput(store[out.id])
    /\ store[out.id].value = Itoa(Pos(<<1, 3, 1>>))
    /\ store[out.id].max = Pos(<<1, 3, 0>>)
    /\ Name(store[out.id]) = "age"
    /\ out.fe.Error.msg =
           <<Lit("age"), Lit(" is "), Lit("more"), Lit(" than "), Lit("%!(EXTRA "),
             Lit("int"), Lit("="), Chars(<<"1", "3", "0">>), Lit(")")>>

\* C5, for the fields held under their current name: after Load of a
\* request that is not nil and parses, a field of a form whose method is
\* "GET" holds the first value of its name among the query parameters,
\* a field of any other form the first among the body parameters, and ""
\* when its name is absent there.
C5_BoundFromMethodSource ==
    (out.op = "Load" /\ ~out.r.isNil /\ ~out.r.malformed) =>
        \A k \in DOMAIN form.fields :
            LET i == store[form.fields[k]]
            IN  Name(i) = k =>
                    Value(i) = First(IF Method(form) = "GET" THEN out.r.query
                                     ELSE out.r.body, Name(i))

\* C6: Load(nil) changes no field, nor the field set, the action or the
\* method.
C6_LoadNilChangesNothing ==
    [][(out'.op = "Load" /\ out'.r.isNil) => (store' = store /\ form' = form)]_vars

C6_Witness ==
    /\ out.op = "Load"
    /\ out.r.isNil
    /\ Action(form) = "/submit"
    /\ Method(form) = "POST"
    /\ \E k \in DOMAIN form.fields : Value(store[form.fields[k]]) # <<>>

\* C7: AddInput of a field whose name the form already holds a field under
\* leaves one field under that name, the one just passed, and Values() has
\* that field's value there.
C7_SecondAddInputWins ==
    [][(out'.op = "AddInput" /\ Name(store[out'.id]) \in DOMAIN form.fields) =>
          /\ DOMAIN form'.fields = DOMAIN form.fields
          /\ form'.fields[Name(store[out'.id])] = out'.id
          /\ DOMAIN Values(form', store') = DOMAIN form.fields
          /\ Values(form', store')[Name(store[out'.id])] = Value(store[out'.id])]_vars

C7_Witness ==
    /\ out.op = "AddInput"
    /\ out.prev \notin {0, out.id}
    /\ form.fields[Name(store[out.id])] = out.id
    /\ Value(store[out.prev]) # Value(store[out.id])
    /\ Values(form, store)[Name(store[out.id])] = Value(store[out.id])

\* C8: no call panics.
C8_NoPanic == ~panicked

\* C9: no two fields of the form have the same Name(), each is held under
\* its current Name(), and each entry of the FormErrors is keyed by the
\* Name of its FieldError.
C9_StoredUnderCurrentName ==
    /\ \A k1, k2 \in DOMAIN form.fields :
           k1 # k2 => Name(store[form.fields[k1]]) # Name(store[form.fields[k2]])
    /\ \A k \in DOMAIN form.fields : Name(store[form.fields[k]]) = k
    /\ (out.op = "FormValidate" /\ ~out.errs.isNil) =>
           \A k \in DOMAIN out.errs.m : out.errs.m[k].Name = k

\* C10: AddValidator appends to the pipeline; Validate calls the validators
\* in that order up to the first that fails, returns a FieldError of the
\* field's name and that validator's error, and returns nil when none
\* fails.
C10_FirstFailureInOrder ==
    /\ [](out.op = "Validate" =>
            LET i       == store[out.id]
                failing == {k \in DOMAIN i.validators :
                                Call(i.validators[k], i) # NilError}
            IN  IF failing = {}
                THEN out.fe.isNil /\ out.invoked = i.validators
                ELSE LET k == CHOOSE k \in failing : \A j \in failing : k <= j
                     IN  /\ out.fe = NewFieldError(Name(i), Call(i.validators[k], i))
                         /\ out.invoked = SubSeq(i.validators, 1, k))
    /\ [][out'.op = "AddValidator" =>
            \/ store'[out'.id].validators
                   = Append(store[out'.id].validators, out'.v)
            \/ UNCHANGED vars]_vars

C10_Witness ==
    /\ out.op = "Validate"
    /\ IsIntegerInput(store[out.id])
    /\ store[out.id].validators = <<"isInteger", "integerBound", "reject", "notEmpty">>
    /\ out.invoked = <<"isInteger", "integerBound", "reject">>
    /\ out.fe = NewFieldError("age", reject(store[out.id]))

====
